---- MODULE Spec2Model ----
(***************************************************************************)
(* A model of the DRC/NRC training pipeline:                               *)
(*   - NRC/main.py: main, load_config, run (train, sample, log);           *)
(*   - NRC/src/bak_0224/networks_gmm_h.py: GLU.forward, CEBMNet.forward.   *)
(* The training program is a state machine over the position in           *)
(* main/run/train (pc); the two network functions are operators applied   *)
(* to inputs drawn from bounded sets.                                      *)
(***************************************************************************)
EXTENDS Integers, Sequences, FiniteSets, TLC

\* ---------------------------------------------------------------- bounds
MaxIters == 3
MaxTotal == 2
MaxEpoch == 4
MaxCalls == 2
MaxChan == 4
MaxDim == 2
MaxLogit == 2

VARIABLES
    \* --- main / load_config
    mode,         \* the argument of main(): 0 stands for None
    argPath,      \* args.path of the command line
    fs,           \* the file system: checkpoint directories, config.yml, template
    config,       \* the Config object main() holds
    calls,        \* the load_config calls made so far, with their outcomes
    \* --- run / train
    pc,           \* position in main -> run -> train
    total,        \* len(train_dataset)
    valLen,       \* len(val_dataset)
    ckptIter,     \* the iteration stored in the checkpoint file
    iteration,    \* model.iteration
    modelMode,    \* the module's train/eval flag
    epoch, keepTraining, batchIdx, batch, progress,
    zn, zp,       \* the latents of the current step
    learnArgs,    \* the arguments of the latest model.learn call
    samplePos,    \* number of items taken from sample_iterator
    called,       \* the operations performed so far in this run
    ops,          \* the operations of the current training step, in order
    learned,      \* the iterations model.learn has produced
    logLines,     \* the iterations whose line was appended to the log file
    sampleCalls,  \* the iterations at which sample() was called
    sampleFiles,  \* the sample images written (named by the iteration)
    saved,        \* the iterations at which model.save() was called
    printed,      \* the messages printed
    \* --- networks_gmm_h.py
    gluX,         \* the input tensor of GLU.forward
    gluOut,       \* what GLU.forward produced
    ebmIn,        \* a CEBMNet (its dimensions and weights) and its input z
    ebmOut        \* what CEBMNet.forward produced

mainVars  == <<mode, argPath, fs, config, calls>>
trainVars == <<pc, total, valLen, ckptIter, iteration, modelMode, epoch,
               keepTraining, batchIdx, batch, progress, zn, zp, learnArgs,
               samplePos, called, ops, learned, logLines, sampleCalls,
               sampleFiles, saved, printed>>
netVars   == <<gluX, gluOut, ebmIn, ebmOut>>
vars == <<mainVars, trainVars, netVars>>

\* ------------------------------------------------------------ load_config
Absent == [absent |-> TRUE]
DefaultPath == "./checkpoints"
Paths == {DefaultPath, "./run2"}

\* the values a config.yml can hold
Intervals == {0, 1, 2}
BatchSizes == {1, 2}
Configs == [MAX_ITERS : 1..MaxIters, LOG_INTERVAL : Intervals,
            SAMPLE_INTERVAL : Intervals, SAVE_INTERVAL : Intervals,
            BATCH_SIZE : BatchSizes, MODE : {1, 2}]

\* os.makedirs(args.path) when the path does not exist
MakeDirs(f, p) ==
    IF f.dir[p] = "absent" THEN [f EXCEPT !.dir[p] = "dir"] ELSE f

\* the copy made whether or not config.yml exists
CopyTemplateAlways(f, p) ==
    IF f.template = Absent THEN [fs |-> f, err |-> "FileNotFoundError"]
    ELSE IF f.dir[p] # "dir" THEN [fs |-> f, err |-> "NotADirectoryError"]
    ELSE [fs |-> [f EXCEPT !.cfg[p] = f.template], err |-> "none"]

\* copyfile('./config.yml.example', config_path) when config.yml does not
\* exist: the template is opened first, then the destination
CopyTemplate(f, p) ==
    IF f.cfg[p] # Absent THEN [fs |-> f, err |-> "none"]
    ELSE IF f.template = Absent THEN [fs |-> f, err |-> "FileNotFoundError"]
    ELSE IF f.dir[p] # "dir" THEN [fs |-> f, err |-> "NotADirectoryError"]
    ELSE [fs |-> [f EXCEPT !.cfg[p] = f.template], err |-> "none"]

\* load_config(mode): the mode argument is not read
load_config(f, p) ==
    LET c == CopyTemplate(MakeDirs(f, p), p)
    IN  [fs |-> c.fs, ok |-> (c.err = "none"), err |-> c.err,
         config |-> IF c.err = "none" THEN c.fs.cfg[p] ELSE Absent]

\* what one call did, as its caller can observe it
Outcome(f, p, r) ==
    [path |-> p, ok |-> r.ok, err |-> r.err,
     madeDir |-> (r.fs.dir[p] # f.dir[p]), copied |-> (r.fs.cfg[p] # f.cfg[p])]

\* ------------------------------------------------------------------ train
\* Intervals are integers: a None interval behaves as 0 in `x and ...`.
NoBatch == <<0, 0>>
NoLatent == [kind |-> "none", batch |-> NoBatch]
NoLearn == [zp |-> NoLatent, zn |-> NoLatent, im |-> NoBatch]
NoDataMsg == "No training data was provided!"

\* the loop body with the checkpoint written before the sample
StepOrderSaveFirst == <<"model_train", "prior", "posterior", "learn", "check",
                        "progbar", "log", "save", "sample">>

\* the body of the for loop of train(), one entry per operation, in order
StepOrder == <<"model_train", "prior", "posterior", "learn", "check",
               "progbar", "log", "sample", "save">>

Index(p) == CHOOSE k \in 1..Len(StepOrder) : StepOrder[k] = p
After(p) == IF Index(p) < Len(StepOrder) THEN StepOrder[Index(p) + 1] ELSE "for"

\* `config.X_INTERVAL and iteration % config.X_INTERVAL == 0`
Due(interval, i) == interval # 0 /\ i % interval = 0

\* DataLoader(..., drop_last=True): the batches of one epoch
NumBatches == total \div config.BATCH_SIZE

Main ==
    /\ pc = "main"
    /\ LET r == load_config(fs, argPath)
       IN  /\ fs' = r.fs
           /\ calls' = Append(calls, Outcome(fs, argPath, r))
           /\ IF r.ok
              THEN /\ config' = r.config
                   /\ iteration' = ckptIter
                   /\ printed' = printed \cup {"start training..."}
                   /\ pc' = "train"
              ELSE /\ pc' = "error"
                   /\ UNCHANGED <<config, iteration, printed>>
    /\ UNCHANGED <<netVars, mode, argPath, total, valLen, ckptIter, modelMode, epoch,
                   keepTraining, batchIdx, batch, progress, zn, zp, learnArgs,
                   samplePos, called, ops, learned, logLines, sampleCalls,
                   sampleFiles, saved>>

\* train() up to its loop. DataLoader(shuffle=True) builds a RandomSampler
\* over train_dataset before `total` is tested; RandomSampler rejects an empty
\* data source ("num_samples should be a positive integer value, but got
\* num_samples=0"), and with a sampler that accepts one train() reaches its
\* own test of total.
SamplerError == "ValueError: num_samples should be a positive integer value"

TrainBegin ==
    /\ pc = "train"
    /\ \/ /\ total = 0
          /\ printed' = printed \cup {SamplerError}
          /\ pc' = "raised"
          /\ UNCHANGED <<epoch, keepTraining>>
       \/ /\ total = 0
          /\ epoch' = 0
          /\ keepTraining' = TRUE
          /\ printed' = printed \cup {NoDataMsg}
          /\ pc' = "done"
       \/ /\ total # 0
          /\ epoch' = 0
          /\ keepTraining' = TRUE
          /\ pc' = "while"
          /\ UNCHANGED printed
    /\ UNCHANGED <<netVars, mainVars, total, valLen, ckptIter, iteration,
                   modelMode, batchIdx, batch, progress, zn, zp, learnArgs,
                   samplePos, called, ops, learned, logLines, sampleCalls,
                   sampleFiles, saved>>

While ==
    /\ pc = "while"
    /\ IF keepTraining
       THEN /\ epoch < MaxEpoch
            /\ epoch' = epoch + 1
            /\ progress' = 0
            /\ batchIdx' = 0
            /\ pc' = "for"
            /\ UNCHANGED printed
       ELSE /\ printed' = printed \cup {"End training...."}
            /\ pc' = "done"
            /\ UNCHANGED <<epoch, progress, batchIdx>>
    /\ UNCHANGED <<netVars, mainVars, total, valLen, ckptIter, iteration, modelMode,
                   keepTraining, batch, zn, zp, learnArgs, samplePos, called,
                   ops, learned, logLines, sampleCalls, sampleFiles, saved>>

ForNext ==
    /\ pc = "for"
    /\ IF batchIdx < NumBatches
       THEN /\ batchIdx' = batchIdx + 1
            /\ batch' = <<epoch, batchIdx + 1>>
            /\ ops' = <<>>
            /\ pc' = StepOrder[1]
       ELSE /\ pc' = "while"
            /\ UNCHANGED <<batchIdx, batch, ops>>
    /\ UNCHANGED <<netVars, mainVars, total, valLen, ckptIter, iteration, modelMode,
                   epoch, keepTraining, progress, zn, zp, learnArgs, samplePos,
                   called, learned, logLines, sampleCalls, sampleFiles, saved,
                   printed>>

\* model.learn(zp, zn, im_t) advances model.iteration by one
learn(i) == i + 1

\* sample() without its check for an empty validation set
sampleNoCheck(st) ==
    [st EXCEPT !.modelMode = "eval",
               !.samplePos = @ + 1,
               !.called = @ \cup {"model.eval", "next(sample_iterator)",
                                  "sample_langevin_posterior(im_t)",
                                  "forward", "images.save"},
               !.sampleFiles = @ \cup {st.iteration}]

\* sample(): nothing when the validation set is empty; else model.eval(),
\* next(sample_iterator), posterior sampling, forward pass, image written
sample(st) ==
    IF st.valLen = 0 THEN st
    ELSE [st EXCEPT !.modelMode = "eval",
                    !.samplePos = @ + 1,
                    !.called = @ \cup {"model.eval", "next(sample_iterator)",
                                       "sample_langevin_posterior(im_t)",
                                       "forward", "images.save"},
                    !.sampleFiles = @ \cup {st.iteration}]

ModelTrain ==
    /\ pc = "model_train"
    /\ modelMode' = "train"
    /\ called' = called \cup {"model.train"}
    /\ ops' = Append(ops, "model.train")
    /\ pc' = After("model_train")
    /\ UNCHANGED <<netVars, mainVars, total, valLen, ckptIter, iteration, epoch,
                   keepTraining, batchIdx, batch, progress, zn, zp, learnArgs,
                   samplePos, learned, logLines, sampleCalls, sampleFiles,
                   saved, printed>>

SamplePrior ==
    /\ pc = "prior"
    /\ zn' = [kind |-> "prior", batch |-> batch]
    /\ called' = called \cup {"sample_langevin_prior(im_t, index)"}
    /\ ops' = Append(ops, "sample_langevin_prior(im_t, index)")
    /\ pc' = After("prior")
    /\ UNCHANGED <<netVars, mainVars, total, valLen, ckptIter, iteration, modelMode,
                   epoch, keepTraining, batchIdx, batch, progress, zp,
                   learnArgs, samplePos, learned, logLines, sampleCalls,
                   sampleFiles, saved, printed>>

SamplePosterior ==
    /\ pc = "posterior"
    /\ zp' = [kind |-> "posterior", batch |-> batch]
    /\ called' = called \cup {"sample_langevin_posterior(im_t, index)"}
    /\ ops' = Append(ops, "sample_langevin_posterior(im_t, index)")
    /\ pc' = After("posterior")
    /\ UNCHANGED <<netVars, mainVars, total, valLen, ckptIter, iteration, modelMode,
                   epoch, keepTraining, batchIdx, batch, progress, zn,
                   learnArgs, samplePos, learned, logLines, sampleCalls,
                   sampleFiles, saved, printed>>

Learn ==
    /\ pc = "learn"
    /\ learnArgs' = [zp |-> zp, zn |-> zn, im |-> batch]
    /\ iteration' = learn(iteration)
    /\ learned' = learned \cup {learn(iteration)}
    /\ called' = called \cup {"model.learn"}
    /\ ops' = Append(ops, "model.learn")
    /\ pc' = After("learn")
    /\ UNCHANGED <<netVars, mainVars, total, valLen, ckptIter, modelMode, epoch,
                   keepTraining, batchIdx, batch, progress, zn, zp, samplePos,
                   logLines, sampleCalls, sampleFiles, saved, printed>>

\* the max-iteration check with > in place of >=
CheckMaxStrict ==
    /\ pc = "check"
    /\ ops' = Append(ops, "check")
    /\ IF iteration > config.MAX_ITERS
       THEN /\ keepTraining' = FALSE
            /\ pc' = "while"
       ELSE /\ pc' = After("check")
            /\ UNCHANGED keepTraining
    /\ UNCHANGED <<netVars, mainVars, total, valLen, ckptIter, iteration,
                   modelMode, epoch, batchIdx, batch, progress, zn, zp,
                   learnArgs, samplePos, called, learned, logLines, sampleCalls,
                   sampleFiles, saved, printed>>

\* `if iteration >= max_iteration: keep_training = False; break`
CheckMax ==
    /\ pc = "check"
    /\ ops' = Append(ops, "check")
    /\ IF iteration >= config.MAX_ITERS
       THEN /\ keepTraining' = FALSE
            /\ pc' = "while"
       ELSE /\ pc' = After("check")
            /\ UNCHANGED keepTraining
    /\ UNCHANGED <<netVars, mainVars, total, valLen, ckptIter, iteration, modelMode,
                   epoch, batchIdx, batch, progress, zn, zp, learnArgs,
                   samplePos, called, learned, logLines, sampleCalls,
                   sampleFiles, saved, printed>>

ProgbarAdd ==
    /\ pc = "progbar"
    /\ progress' = progress + config.BATCH_SIZE
    /\ ops' = Append(ops, "progbar.add")
    /\ pc' = After("progbar")
    /\ UNCHANGED <<netVars, mainVars, total, valLen, ckptIter, iteration, modelMode,
                   epoch, keepTraining, batchIdx, batch, zn, zp, learnArgs,
                   samplePos, called, learned, logLines, sampleCalls,
                   sampleFiles, saved, printed>>

LogStep ==
    /\ pc = "log"
    /\ IF Due(config.LOG_INTERVAL, iteration)
       THEN /\ logLines' = logLines \cup {iteration}
            /\ called' = called \cup {"log"}
            /\ ops' = Append(ops, "log")
       ELSE UNCHANGED <<logLines, called, ops>>
    /\ pc' = After("log")
    /\ UNCHANGED <<netVars, mainVars, total, valLen, ckptIter, iteration, modelMode,
                   epoch, keepTraining, batchIdx, batch, progress, zn, zp,
                   learnArgs, samplePos, learned, sampleCalls, sampleFiles,
                   saved, printed>>

SampleStep ==
    /\ pc = "sample"
    /\ IF Due(config.SAMPLE_INTERVAL, iteration)
       THEN LET r == sample([valLen |-> valLen, iteration |-> iteration,
                             modelMode |-> modelMode, samplePos |-> samplePos,
                             sampleFiles |-> sampleFiles,
                             called |-> called \cup {"sample"}])
            IN  /\ sampleCalls' = sampleCalls \cup {iteration}
                /\ ops' = Append(ops, "sample")
                /\ modelMode' = r.modelMode
                /\ samplePos' = r.samplePos
                /\ sampleFiles' = r.sampleFiles
                /\ called' = r.called
       ELSE UNCHANGED <<sampleCalls, ops, modelMode, samplePos, sampleFiles,
                        called>>
    /\ pc' = After("sample")
    /\ UNCHANGED <<netVars, mainVars, total, valLen, ckptIter, iteration, epoch,
                   keepTraining, batchIdx, batch, progress, zn, zp, learnArgs,
                   learned, logLines, saved, printed>>

SaveStep ==
    /\ pc = "save"
    /\ IF Due(config.SAVE_INTERVAL, iteration)
       THEN /\ saved' = saved \cup {iteration}
            /\ ckptIter' = iteration
            /\ called' = called \cup {"model.save"}
            /\ ops' = Append(ops, "model.save")
       ELSE UNCHANGED <<saved, ckptIter, called, ops>>
    /\ pc' = After("save")
    /\ UNCHANGED <<netVars, mainVars, total, valLen, iteration, modelMode, epoch,
                   keepTraining, batchIdx, batch, progress, zn, zp, learnArgs,
                   samplePos, learned, logLines, sampleCalls, sampleFiles,
                   printed>>

\* ------------------------------------------------------- tensors, slices
Min(a, b) == IF a < b THEN a ELSE b
Max(a, b) == IF a > b THEN a ELSE b

\* a slice bound of Python, on a dimension of width w: negative bounds count
\* from the end, and every bound is clamped to 0..w
Norm(i, w) == IF i < 0 THEN Max(i + w, 0) ELSE Min(i, w)

\* t[:, lo:hi] as the half-open range of columns it selects
Slice(w, lo, hi) ==
    [lo |-> Norm(lo, w), hi |-> Max(Norm(lo, w), Norm(hi, w))]
Width(s) == s.hi - s.lo
\* s[:, lo:hi] for a slice s of z, in the columns of z
Sub(s, lo, hi) ==
    LET r == Slice(Width(s), lo, hi) IN [lo |-> s.lo + r.lo, hi |-> s.lo + r.hi]
Cols(s) == s.lo .. (s.hi - 1)

\* ------------------------------------------------------------ GLU.forward
\* A tensor (B, C, H, W) is its shape and one value per channel.
NoTensor == [shape |-> <<>>, data |-> <<>>]
ChanVals == {-1, 0, 1}

\* x[:, lo:hi]
SliceChan(t, lo, hi) ==
    LET r == Slice(t.shape[2], lo, hi)
    IN  [shape |-> [t.shape EXCEPT ![2] = Width(r)],
         data |-> SubSeq(t.data, r.lo + 1, r.hi)]

\* torch.sigmoid(t): elementwise, as a term
Sigmoid(t) == [t EXCEPT !.data = [j \in DOMAIN t.data |-> [sigmoid |-> t.data[j]]]]

\* a * b, elementwise on tensors of one shape, as a term
Mul(a, b) == [a EXCEPT !.data = [j \in DOMAIN a.data |-> [mul |-> <<a.data[j], b.data[j]>>]]]

\* GLU.forward without its assertion
GLU_forwardNoAssert(x) ==
    LET nc0 == x.shape[2]
        nc == nc0 \div 2
    IN  [ok |-> TRUE, err |-> "none",
         out |-> Mul(SliceChan(x, 0, nc), Sigmoid(SliceChan(x, nc, nc0)))]

\* GLU.forward: assert nc % 2 == 0; nc = int(nc/2);
\* x[:, :nc] * torch.sigmoid(x[:, nc:])
GLU_forward(x) ==
    LET nc0 == x.shape[2]
    IN  IF nc0 % 2 # 0
        THEN [ok |-> FALSE, err |-> "channels dont divide 2!", out |-> NoTensor]
        ELSE LET nc == nc0 \div 2
             IN  [ok |-> TRUE, err |-> "none",
                  out |-> Mul(SliceChan(x, 0, nc),
                              Sigmoid(SliceChan(x, nc, nc0)))]

NoResult == [ok |-> FALSE, err |-> "not called", out |-> NoTensor]

GLUCall ==
    /\ pc = "glu"
    /\ gluOut' = GLU_forward(gluX)
    /\ pc' = "glu_ret"
    /\ UNCHANGED <<mainVars, gluX, ebmIn, ebmOut, total, valLen, ckptIter,
                   iteration, modelMode, epoch, keepTraining, batchIdx, batch,
                   progress, zn, zp, learnArgs, samplePos, called, ops, learned,
                   logLines, sampleCalls, sampleFiles, saved, printed>>

\* -------------------------------------------------------- CEBMNet.forward
\* A real number x is carried as the natural number e^x. exp is an
\* isomorphism from (R, +) to (R>0, *): the sum x + y is carried as the
\* product of the carried values, and logsumexp(v) = log(sum_j e^v[j]) as
\* the sum of the carried values of v.
RECURSIVE LogSumExp(_)
LogSumExp(v) == IF v = <<>> THEN 0 ELSE Head(v) + LogSumExp(Tail(v))
Plus(a, b) == a * b

\* the class widths of fg_model_0..3 and of bg_model_0..3
FgWidths == <<2, 4, 5, 5>>
BgWidths == <<2, 4, 5, 5>>
\* in_channels of every level model
InChannels == 128

\* the dimensions a CEBMNet is built with
ZfDims == (0..MaxDim) \cup {64, 512}
ZbDims == (0..MaxDim) \cup {32, 512}
ZspDims == (0..MaxDim) \cup {128}
Seeds == 0..2

\* the logits a level model computes: row b, class j of model n under the
\* weights `seed`, carried as e^logit in 1..MaxLogit
NetOut(seed, n, B, K) ==
    [b \in 1..B |-> [j \in 1..K |-> 1 + ((seed + b + j + (n \div 4)) % MaxLogit)]]

\* the score with the last background term taken from the foreground
ScoreCopyPaste(fl, bl, sl, b) ==
    << Plus(Plus(Plus(Plus(Plus(Plus(Plus(Plus(
         LogSumExp(fl[1][b]), LogSumExp(fl[2][b])), LogSumExp(fl[3][b])),
         LogSumExp(fl[4][b])), LogSumExp(bl[1][b])), LogSumExp(bl[2][b])),
         LogSumExp(bl[3][b])), LogSumExp(fl[4][b])), sl[b][1]) >>

\* row b of score: logsumexp(., dim=1, keepdim=True) of the eight logit
\* tensors, added up with zs_logits
Score(fl, bl, sl, b) ==
    << Plus(Plus(Plus(Plus(Plus(Plus(Plus(Plus(
         LogSumExp(fl[1][b]), LogSumExp(fl[2][b])), LogSumExp(fl[3][b])),
         LogSumExp(fl[4][b])), LogSumExp(bl[1][b])), LogSumExp(bl[2][b])),
         LogSumExp(bl[3][b])), LogSumExp(bl[4][b])), sl[b][1]) >>

CEBMNet_forward(e) ==
    LET w  == e.zf_dim + e.zb_dim + e.zsp_dim
        zf == Slice(w, 0, e.zf_dim)
        zb == Slice(w, e.zf_dim, e.zf_dim + e.zb_dim)
        zs == Slice(w, -e.zsp_dim, w)
        \* the inputs of the level models: z?[:, :128] .. z?[:, 384:512]
        Levels(s) == <<Sub(s, 0, 128), Sub(s, 128, 256), Sub(s, 256, 384),
                       Sub(s, 384, 512)>>
        \* nn.Linear raises on an input whose width is not its in_features
        shapesOk == /\ Width(zs) = e.zsp_dim
                    /\ \A k \in 1..4 : /\ Width(Levels(zf)[k]) = InChannels
                                       /\ Width(Levels(zb)[k]) = InChannels
        fl == [k \in 1..4 |-> NetOut(e.seed, k, e.B, FgWidths[k])]
        bl == [k \in 1..4 |-> NetOut(e.seed, 4 + k, e.B, BgWidths[k])]
        sl == NetOut(e.seed, 9, e.B, 1)
    IN  IF shapesOk
        THEN [ok |-> TRUE, err |-> "none", zf |-> zf, zb |-> zb, zs |-> zs,
              score |-> [b \in 1..e.B |-> Score(fl, bl, sl, b)],
              zf_logits |-> fl, zb_logits |-> bl, zs_logits |-> sl]
        ELSE [ok |-> FALSE, err |-> "RuntimeError: shapes cannot be multiplied",
              zf |-> zf, zb |-> zb, zs |-> zs,
              score |-> <<>>, zf_logits |-> <<>>, zb_logits |-> <<>>,
              zs_logits |-> <<>>]

EBMCall ==
    /\ pc = "ebm"
    /\ ebmOut' = CEBMNet_forward(ebmIn)
    /\ pc' = "ebm_ret"
    /\ UNCHANGED <<mainVars, gluX, gluOut, ebmIn, total, valLen, ckptIter,
                   iteration, modelMode, epoch, keepTraining, batchIdx, batch,
                   progress, zn, zp, learnArgs, samplePos, called, ops, learned,
                   logLines, sampleCalls, sampleFiles, saved, printed>>

NoEbm == [zf_dim |-> 0, zb_dim |-> 0, zsp_dim |-> 0, B |-> 0, seed |-> 0]
NoEbmResult == [ok |-> FALSE, err |-> "not called"]

Init ==
    /\ mode \in 0..3
    /\ argPath = DefaultPath
    /\ \E c \in Configs, fresh \in BOOLEAN :
          fs = [dir |-> [p \in Paths |->
                           IF p = DefaultPath /\ ~fresh THEN "dir" ELSE "absent"],
                cfg |-> [p \in Paths |->
                           IF p = DefaultPath /\ ~fresh THEN c ELSE Absent],
                template |-> c]
    /\ config = Absent
    /\ calls = <<>>
    /\ pc = "main"
    /\ total \in 0..MaxTotal
    /\ valLen \in {0, 1}
    /\ ckptIter \in {0, 1}
    /\ iteration = 0
    /\ modelMode = "train"
    /\ epoch = 0
    /\ keepTraining = TRUE
    /\ batchIdx = 0
    /\ batch = NoBatch
    /\ progress = 0
    /\ zn = NoLatent
    /\ zp = NoLatent
    /\ learnArgs = NoLearn
    /\ samplePos = 0
    /\ called = {}
    /\ ops = <<>>
    /\ learned = {}
    /\ logLines = {}
    /\ sampleCalls = {}
    /\ sampleFiles = {}
    /\ saved = {}
    /\ printed = {}
    /\ gluX = NoTensor
    /\ gluOut = NoResult
    /\ ebmIn = NoEbm
    /\ ebmOut = NoEbmResult

Next ==
    \/ Main \/ TrainBegin \/ While \/ ForNext
    \/ ModelTrain \/ SamplePrior \/ SamplePosterior \/ Learn \/ CheckMax
    \/ ProgbarAdd \/ LogStep \/ SampleStep \/ SaveStep

Spec == Init /\ [][Next]_vars

\* the state every specification of a single function starts from
Idle ==
    /\ mode = 0 /\ argPath = DefaultPath /\ config = Absent
    /\ calls = <<>>
    /\ total = 0 /\ valLen = 0 /\ ckptIter = 0 /\ iteration = 0
    /\ modelMode = "train" /\ epoch = 0 /\ keepTraining = TRUE
    /\ batchIdx = 0 /\ batch = NoBatch /\ progress = 0
    /\ zn = NoLatent /\ zp = NoLatent /\ learnArgs = NoLearn
    /\ samplePos = 0 /\ called = {} /\ ops = <<>> /\ learned = {}
    /\ logLines = {} /\ sampleCalls = {} /\ sampleFiles = {} /\ saved = {}
    /\ printed = {}

\* load_config called on its own, repeatedly, on every state of the two
\* checkpoint paths and of the template
SomeConfigs == {c \in Configs : c.MAX_ITERS = 1 /\ c.LOG_INTERVAL = 0
                  /\ c.SAMPLE_INTERVAL = 0 /\ c.SAVE_INTERVAL = 0
                  /\ c.BATCH_SIZE = 1}
PathStates == {[dir |-> "absent", cfg |-> Absent], [dir |-> "file", cfg |-> Absent],
               [dir |-> "dir", cfg |-> Absent]}
              \cup {[dir |-> "dir", cfg |-> c] : c \in SomeConfigs}

LoadConfigCall ==
    /\ pc = "config"
    /\ Len(calls) < MaxCalls
    /\ \E p \in Paths :
          LET r == load_config(fs, p)
          IN  /\ fs' = r.fs
              /\ config' = r.config
              /\ calls' = Append(calls, Outcome(fs, p, r))
    /\ UNCHANGED <<netVars, trainVars, mode, argPath>>

InitConfig ==
    /\ Idle
    /\ pc = "config"
    /\ \E st \in [Paths -> PathStates], t \in SomeConfigs \cup {Absent} :
          fs = [dir |-> [p \in Paths |-> st[p].dir],
                cfg |-> [p \in Paths |-> st[p].cfg],
                template |-> t]
    /\ gluX = NoTensor
    /\ gluOut = NoResult
    /\ ebmIn = NoEbm
    /\ ebmOut = NoEbmResult

SpecConfig == InitConfig /\ [][LoadConfigCall]_vars

EmptyFs == [dir |-> [p \in Paths |-> "absent"], cfg |-> [p \in Paths |-> Absent],
            template |-> Absent]

\* GLU.forward on every tensor of up to MaxChan channels
InitGLU ==
    /\ Idle
    /\ fs = EmptyFs
    /\ pc = "glu"
    /\ \E B \in 1..2, C \in 0..MaxChan, H \in 1..2 :
          \E d \in [1..C -> ChanVals] :
             gluX = [shape |-> <<B, C, H, H>>, data |-> d]
    /\ gluOut = NoResult
    /\ ebmIn = NoEbm
    /\ ebmOut = NoEbmResult

SpecGLU == InitGLU /\ [][GLUCall]_vars

\* CEBMNet.forward on networks of small and of the shipped dimensions
InitEBM ==
    /\ Idle
    /\ fs = EmptyFs
    /\ pc = "ebm"
    /\ gluX = NoTensor
    /\ gluOut = NoResult
    /\ ebmIn \in [zf_dim : ZfDims, zb_dim : ZbDims, zsp_dim : ZspDims,
                  B : 1..2, seed : Seeds]
    /\ ebmOut = NoEbmResult

SpecEBM == InitEBM /\ [][EBMCall]_vars

\* =================================================================== claims
\* i is a multiple of a non-zero interval n
Multiple(i, n) == n # 0 /\ i % n = 0
\* the positions of a training step after its model.learn call
AfterLearn == {"check", "progbar", "log", "sample", "save"}
\* the training step that produced iteration i is over
Finished(i) == ~(i = iteration /\ pc \in AfterLearn)
InLoop == {"while", "for"} \cup {StepOrder[k] : k \in 1..Len(StepOrder)}

\* C1 (as claimed): after every model.learn call, once the step of iteration i
\* is over, the log line was appended, sample() was run and model.save() was
\* called whenever the interval is non-zero and divides i, for every iteration
\* reached, the last one included.
C1_EveryIterationIncludingLast ==
    \A i \in learned : Finished(i) =>
        /\ Multiple(i, config.LOG_INTERVAL) => i \in logLines
        /\ Multiple(i, config.SAMPLE_INTERVAL) => i \in sampleCalls
        /\ Multiple(i, config.SAVE_INTERVAL) => i \in saved

\* C1 (amended): for every iteration i below MAX_ITERS the three actions run
\* exactly when their interval is non-zero and divides i; at an iteration
\* i >= MAX_ITERS the loop is left before any of them runs.
C1_BelowMaxIters ==
    \A i \in learned :
        /\ i \in logLines => Multiple(i, config.LOG_INTERVAL) /\ i < config.MAX_ITERS
        /\ i \in sampleCalls => Multiple(i, config.SAMPLE_INTERVAL) /\ i < config.MAX_ITERS
        /\ i \in saved => Multiple(i, config.SAVE_INTERVAL) /\ i < config.MAX_ITERS
        /\ (Finished(i) /\ i < config.MAX_ITERS) =>
              /\ Multiple(i, config.LOG_INTERVAL) => i \in logLines
              /\ Multiple(i, config.SAMPLE_INTERVAL) => i \in sampleCalls
              /\ Multiple(i, config.SAVE_INTERVAL) => i \in saved

\* C1 witness: training ended at an iteration all three intervals divide, with
\* earlier iterations logged, sampled and saved and the last one not.
C1_Witness ==
    /\ pc = "done" /\ iteration \in learned
    /\ Multiple(iteration, config.LOG_INTERVAL)
    /\ Multiple(iteration, config.SAMPLE_INTERVAL)
    /\ Multiple(iteration, config.SAVE_INTERVAL)
    /\ logLines # {} /\ sampleCalls # {} /\ saved # {}
    /\ iteration \notin (logLines \cup sampleCalls \cup saved)

\* C2 (as claimed): with an empty training set train() reports 'No training
\* data was provided!' and returns: it is left only by that return, the loop
\* is never entered, no operation of the model, sample(), log() or save() is
\* performed, model.iteration keeps the value it was loaded with.
C2_EmptyTrainingSet ==
    total = 0 =>
        /\ pc \in {"main", "error", "train", "done"}
        /\ called = {} /\ learned = {} /\ ops = <<>>
        /\ logLines = {} /\ sampleCalls = {} /\ saved = {}
        /\ pc \in {"train", "done"} => iteration = ckptIter
        /\ pc = "done" => printed = {"start training...", NoDataMsg}

\* C2, the part that holds however train() is left: with an empty training
\* set no operation of the model, sample(), log() or save() is performed and
\* model.iteration keeps the value it was loaded with.
C2_NoOperationOnEmptyTrainingSet ==
    total = 0 =>
        /\ pc \notin InLoop
        /\ called = {} /\ learned = {} /\ ops = <<>>
        /\ logLines = {} /\ sampleCalls = {} /\ saved = {}
        /\ pc \in {"train", "done", "raised"} => iteration = ckptIter

\* C3 (as claimed): the mode decides what main performs: with mode 2 or 3,
\* given as the argument or read from the config file when the argument is
\* not given, the training loop is not run.
C3_ModeSelectsOperation ==
    LET m == IF mode # 0 THEN mode
             ELSE IF config # Absent THEN config.MODE ELSE 0
    IN  m \in {2, 3} => "model.learn" \notin called

\* C4: when load_config returns, the checkpoints directory and its config.yml
\* exist; the directory is created only if it did not exist, the template is
\* copied only if config.yml did not exist, an existing config.yml is never
\* overwritten; a call that follows a returned call with the same path
\* changes nothing in the file system.
C4_LoadConfigFrame ==
    [][Len(calls') = Len(calls) + 1 =>
        LET c == calls'[Len(calls')]
            p == c.path
        IN  /\ c.ok => /\ fs'.dir[p] = "dir"
                       /\ fs'.cfg[p] # Absent
                       /\ config' = fs'.cfg[p]
            /\ fs.dir[p] # "absent" => fs'.dir[p] = fs.dir[p]
            /\ fs.cfg[p] # Absent => fs'.cfg[p] = fs.cfg[p]
            /\ fs'.cfg[p] # fs.cfg[p] => fs'.cfg[p] = fs.template
            /\ fs'.template = fs.template
            /\ \A q \in Paths \ {p} :
                  fs'.dir[q] = fs.dir[q] /\ fs'.cfg[q] = fs.cfg[q]
            /\ (\E k \in 1..Len(calls) : calls[k].ok /\ calls[k].path = p)
                  => fs' = fs
    ]_vars

\* C4 witness: a first call created the directory and copied the template, a
\* second call with the same path returned and did neither.
C4_Witness ==
    /\ Len(calls) = 2
    /\ calls[1].path = calls[2].path
    /\ calls[1].ok /\ calls[1].madeDir /\ calls[1].copied
    /\ calls[2].ok /\ ~calls[2].madeDir /\ ~calls[2].copied
    /\ fs.cfg[calls[2].path] = fs.template

\* C5: with an empty validation set sample() does nothing: no model.eval(),
\* no item taken from sample_iterator, no Langevin sampling or forward pass
\* in sample(), no image written, the train/eval flag as it was.
C5_SampleEmptyValidation ==
    valLen = 0 =>
        /\ called \cap {"model.eval", "next(sample_iterator)",
                        "sample_langevin_posterior(im_t)", "forward",
                        "images.save"} = {}
        /\ samplePos = 0
        /\ sampleFiles = {}
        /\ modelMode = "train"

\* C5 witness: sample() has been called with an empty validation set.
C5_Witness == valLen = 0 /\ sampleCalls # {} /\ "sample" \in called

\* claim-side sums and products, over the returned logits
RECURSIVE SumOf(_)
SumOf(v) == IF Len(v) = 0 THEN 0 ELSE v[Len(v)] + SumOf(SubSeq(v, 1, Len(v) - 1))

\* C6: the first result of CEBMNet.forward is one score per batch element,
\* shape (B, 1), equal to the sum over the eight logit vectors (widths 2, 4,
\* 5, 5 for foreground and background) of their log-sum-exp plus the spatial
\* logit (with e^x carried: the product of the eight sums and the spatial
\* value); the logits returned are the ones the level models computed.
C6_ScoreIsSumOfLogSumExp ==
    (pc = "ebm_ret" /\ ebmOut.ok) =>
        LET B == ebmIn.B
            W == <<2, 4, 5, 5>>
        IN  /\ DOMAIN ebmOut.score = 1..B
            /\ \A b \in 1..B :
                  /\ Len(ebmOut.score[b]) = 1
                  /\ \A k \in 1..4 : /\ Len(ebmOut.zf_logits[k][b]) = W[k]
                                     /\ Len(ebmOut.zb_logits[k][b]) = W[k]
                  /\ Len(ebmOut.zs_logits[b]) = 1
                  /\ ebmOut.score[b][1] =
                        SumOf(ebmOut.zf_logits[1][b]) * SumOf(ebmOut.zf_logits[2][b])
                      * SumOf(ebmOut.zf_logits[3][b]) * SumOf(ebmOut.zf_logits[4][b])
                      * SumOf(ebmOut.zb_logits[1][b]) * SumOf(ebmOut.zb_logits[2][b])
                      * SumOf(ebmOut.zb_logits[3][b]) * SumOf(ebmOut.zb_logits[4][b])
                      * ebmOut.zs_logits[b][1]
            /\ \A k \in 1..4 :
                  /\ ebmOut.zf_logits[k] = NetOut(ebmIn.seed, k, B, W[k])
                  /\ ebmOut.zb_logits[k] = NetOut(ebmIn.seed, 4 + k, B, W[k])
            /\ ebmOut.zs_logits = NetOut(ebmIn.seed, 9, B, 1)

\* C6 witness: forward returned on a batch of two whose scores differ and
\* whose last foreground and background logits differ.
C6_Witness ==
    /\ pc = "ebm_ret" /\ ebmOut.ok /\ ebmIn.B = 2
    /\ ebmOut.score[1] # ebmOut.score[2]
    /\ SumOf(ebmOut.zf_logits[4][1]) # SumOf(ebmOut.zb_logits[4][1])

\* C7 (as claimed): for all zf_dim, zb_dim, zsp_dim >= 0 and z of exactly
\* zf_dim + zb_dim + zsp_dim columns the slices zf, zb, zs are contiguous, in
\* this order, pairwise disjoint and cover every column of z exactly once.
C7_SlicesPartitionZ ==
    pc = "ebm_ret" =>
        LET w == ebmIn.zf_dim + ebmIn.zb_dim + ebmIn.zsp_dim
            zf == ebmOut.zf
            zb == ebmOut.zb
            zs == ebmOut.zs
        IN  /\ zf.lo = 0 /\ zf.hi = zb.lo /\ zb.hi = zs.lo /\ zs.hi = w
            /\ Cols(zf) \cup Cols(zb) \cup Cols(zs) = 0..(w - 1)
            /\ Cols(zf) \cap Cols(zb) = {}
            /\ Cols(zf) \cap Cols(zs) = {}
            /\ Cols(zb) \cap Cols(zs) = {}
            /\ Width(zf) = ebmIn.zf_dim /\ Width(zb) = ebmIn.zb_dim
            /\ Width(zs) = ebmIn.zsp_dim

\* C7, the part that holds: with zsp_dim >= 1 the three slices partition z.
C7_SlicesPartitionZWhenZspPositive ==
    (pc = "ebm_ret" /\ ebmIn.zsp_dim >= 1) =>
        LET w == ebmIn.zf_dim + ebmIn.zb_dim + ebmIn.zsp_dim
            zf == ebmOut.zf
            zb == ebmOut.zb
            zs == ebmOut.zs
        IN  /\ zf.lo = 0 /\ zf.hi = zb.lo /\ zb.hi = zs.lo /\ zs.hi = w
            /\ Width(zf) = ebmIn.zf_dim /\ Width(zb) = ebmIn.zb_dim
            /\ Width(zs) = ebmIn.zsp_dim

\* C8: on an even number C of channels GLU.forward returns a tensor of C/2
\* channels, the other dimensions unchanged, channel j being channel j of the
\* input times the sigmoid of channel C/2 + j; on an odd number of channels
\* it fails the assertion 'channels dont divide 2!' and returns nothing.
C8_GLUHalvesChannels ==
    pc = "glu_ret" =>
        LET C == gluX.shape[2]
            h == C \div 2
        IN  IF C % 2 = 0
            THEN /\ gluOut.ok
                 /\ gluOut.out.shape = <<gluX.shape[1], h, gluX.shape[3], gluX.shape[4]>>
                 /\ Len(gluOut.out.data) = h
                 /\ \A j \in 1..h :
                       gluOut.out.data[j] =
                          [mul |-> <<gluX.data[j], [sigmoid |-> gluX.data[h + j]]>>]
            ELSE /\ ~gluOut.ok
                 /\ gluOut.err = "channels dont divide 2!"
                 /\ gluOut.out = NoTensor

\* C8 witness: GLU.forward was applied to a tensor of three channels and
\* failed its assertion.
C8_Witness ==
    /\ pc = "glu_ret" /\ gluX.shape[2] = 3
    /\ ~gluOut.ok /\ gluOut.err = "channels dont divide 2!"

\* C9: every training step performs its operations in one fixed order; learn
\* receives the latents sampled for the same batch in the same step; a
\* checkpoint of iteration i is written after the sample image of iteration i.
FixedOrder == <<"model.train", "sample_langevin_prior(im_t, index)",
                "sample_langevin_posterior(im_t, index)", "model.learn",
                "check", "progbar.add", "log", "sample", "model.save">>
Rank(o) == CHOOSE k \in 1..Len(FixedOrder) : FixedOrder[k] = o

C9_FixedStepOrder ==
    /\ \A k \in 1..Len(ops) :
          /\ k <= 6 => ops[k] = FixedOrder[k]
          /\ k > 1 => Rank(ops[k - 1]) < Rank(ops[k])
    /\ (pc \in {"for", "while", "done"} /\ ops # <<>>) =>
          /\ Len(ops) >= 5
          /\ Len(ops) = 5 <=> iteration >= config.MAX_ITERS
    /\ learnArgs # NoLearn =>
          /\ learnArgs.zp = [kind |-> "posterior", batch |-> learnArgs.im]
          /\ learnArgs.zn = [kind |-> "prior", batch |-> learnArgs.im]
          /\ pc \in AfterLearn => learnArgs.im = batch
    /\ \A i \in saved :
          (Multiple(i, config.SAMPLE_INTERVAL) /\ valLen > 0) => i \in sampleFiles

\* C9 witness: a step that logged, sampled and saved, in a second epoch.
C9_Witness ==
    /\ pc = "for" /\ ops = FixedOrder /\ epoch >= 2
    /\ iteration \in sampleFiles /\ iteration \in saved

====
